---- MODULE Spec2Model ----
(***************************************************************************)
(* Model of app.py, the Streamlit dashboard "Dashboard Ouvidoria ANVISA".  *)
(*                                                                         *)
(* A text value (a column header, a cell) is a sequence of symbols.  A     *)
(* symbol is one character (" ", "?", "/", a digit, the byte-order mark    *)
(* written BOM) or a whole word that holds no whitespace at its ends and   *)
(* no byte-order mark ("Data de Abertura"), so that str.strip and          *)
(* str.replace act on the sequence exactly as they act on the text.        *)
(* Accented letters of the source are written without the accent.          *)
(*                                                                         *)
(* One run of the script is one action: Streamlit runs the whole script,   *)
(* synchronously, on the first visit and after every interaction with a    *)
(* widget.  The category columns the charts read ("Tipo", "Assunto", ...)  *)
(* carry no part of the ingestion or of the filter and are taken to be     *)
(* present in both files.                                                  *)
(***************************************************************************)
EXTENDS Integers, Sequences, FiniteSets, TLC

\* Largest number of data rows of a source file.
MaxRows == 2

VARIABLES
    arquivo_pesquisa,            \* pesquisa.csv on disk
    arquivo_manifestacoes,       \* ListaManifestacaoAtualizadaa.csv on disk
    locale_pt,                   \* whether the locale pt_BR.UTF-8 is installed
    cache,                       \* the two st.cache_data entries
    usar_data_invalida,          \* the checkbox of line 106
    multiselect,                 \* the session's value of the widget of line 125
    pc,                          \* "inicio", "idle" (page drawn), "stopped" (st.stop)
    df_pesquisa,
    df_manifestacoes,
    coluna_data_encontrada,      \* the loader's local of line 37, as last computed
    mensagens,                   \* st.error / st.warning / st.info, in page order
    filtro_disponivel,           \* which branch of line 109 ran
    mapa_mes_display_para_periodo,
    opcoes_meses_display,
    meses_selecionados_periodo,
    df_pesquisa_filtrado,
    df_manifestacoes_filtrado,
    aba1,
    aba2,
    restaurou                    \* history: this run shows a case row the run before left out

vars == <<arquivo_pesquisa, arquivo_manifestacoes, locale_pt, cache,
          usar_data_invalida, multiselect, pc, df_pesquisa, df_manifestacoes,
          coluna_data_encontrada, mensagens, filtro_disponivel,
          mapa_mes_display_para_periodo, opcoes_meses_display,
          meses_selecionados_periodo, df_pesquisa_filtrado,
          df_manifestacoes_filtrado, aba1, aba2, restaurou>>

ambiente == <<arquivo_pesquisa, arquivo_manifestacoes, locale_pt>>

-----------------------------------------------------------------------------
(* Text primitives: Python's str.strip and str.replace(old, new).          *)

BOM == "U+FEFF"

\* str.isspace for the symbols of the model: the byte-order mark is no whitespace.
IsSpace(c) == c = " "

RECURSIVE LStrip(_)
LStrip(s) == IF Len(s) > 0 /\ IsSpace(Head(s)) THEN LStrip(Tail(s)) ELSE s

RECURSIVE RStrip(_)
RStrip(s) ==
    IF Len(s) > 0 /\ IsSpace(s[Len(s)]) THEN RStrip(SubSeq(s, 1, Len(s) - 1)) ELSE s

\* str.strip(): leading and trailing whitespace removed.
Strip(s) == RStrip(LStrip(s))

\* str.replace(old, new), regex=False: one pass, left to right, over
\* non-overlapping occurrences; the text already produced is not rescanned.
RECURSIVE Replace(_, _, _)
Replace(s, old, new) ==
    IF Len(s) < Len(old) \/ Len(old) = 0 THEN s
    ELSE IF SubSeq(s, 1, Len(old)) = old
         THEN new \o Replace(SubSeq(s, Len(old) + 1, Len(s)), old, new)
         ELSE <<Head(s)>> \o Replace(Tail(s), old, new)

\* The junk prefix '?? ' of line 34.
JunkSatisfacao == <<"?", "?", " ">>

\* Line 34: .str.replace('?? ', '', regex=False).str.strip()
CleanCell(s) == Strip(Replace(s, JunkSatisfacao, <<>>))

\* Line 30: df.columns.str.strip()
NormalizaHeaderPesquisa(h) == Strip(h)

\* Lines 69-74: .str.strip(), then both .str.replace calls, each removing the
\* byte-order mark (the literal character, then its escape "\uFEFF").
NormalizaHeaderManifestacoes(h) ==
    Replace(Replace(Strip(h), <<BOM>>, <<>>), <<BOM>>, <<>>)


-----------------------------------------------------------------------------
(* Dates: pd.to_datetime(errors='coerce', dayfirst=True) and to_period('M') *)

\* A null of pandas (NaT, NaN, None): what isnull / isna / dropna recognise.
NaT == <<>>

Digitos == <<"0", "1", "2", "3", "4", "5", "6", "7", "8", "9">>

IsDigit(c) == \E i \in 1..Len(Digitos) : Digitos[i] = c

DigitVal(c) == (CHOOSE i \in 1..Len(Digitos) : Digitos[i] = c) - 1

RECURSIVE Numero(_)
Numero(s) == IF Len(s) = 0 THEN 0
             ELSE 10 * Numero(SubSeq(s, 1, Len(s) - 1)) + DigitVal(s[Len(s)])

Bissexto(y) == (y % 4 = 0 /\ y % 100 # 0) \/ y % 400 = 0

DiasNoMes(m, y) ==
    IF m = 2 THEN (IF Bissexto(y) THEN 29 ELSE 28)
    ELSE IF m \in {4, 6, 9, 11} THEN 30 ELSE 31

\* Lines 45 and 83: a text "dd/mm/yyyy" is read day first; a text that is no
\* calendar date under that reading (a placeholder, a blank, day 31 of a month
\* of 30) is coerced to NaT, never raised.  The result is <<year, month, day>>.
ToDatetime(cell) ==
    IF /\ Len(cell) = 10
       /\ cell[3] = "/" /\ cell[6] = "/"
       /\ \A i \in {1, 2, 4, 5, 7, 8, 9, 10} : IsDigit(cell[i])
    THEN LET d == Numero(SubSeq(cell, 1, 2))
             m == Numero(SubSeq(cell, 4, 5))
             y == Numero(SubSeq(cell, 7, 10))
         IN  IF m \in 1..12 /\ d >= 1 /\ d <= DiasNoMes(m, y)
             THEN <<y, m, d>> ELSE NaT
    ELSE NaT

\* Lines 46 and 84: .dt.to_period('M'); the period is <<year, month>>.
ToPeriod(dt) == IF dt = NaT THEN NaT ELSE <<dt[1], dt[2]>>

\* Chronological order of pandas Period objects.
PeriodLess(p, q) == p[1] < q[1] \/ (p[1] = q[1] /\ p[2] < q[2])

-----------------------------------------------------------------------------
(* The two source files, as the file system hands them to pd.read_csv.     *)

Range(f) == {f[i] : i \in DOMAIN f}

\* Line 32: coluna_satisfacao.
ColunaSatisfacao == <<"Voce esta satisfeito(a) com o atendimento prestado?">>

\* Line 36: opcoes_coluna_data, in the order of the list.
OpcoesColunaData == << <<"Resposta a Pesquisa">>, <<"Resposta a pesquisa">> >>

\* Lines 82-84: the date column of the case records.
ColunaDataAbertura == <<"Data de Abertura">>

\* The column both loaders add (lines 46, 50, 84, 87).
ColunaMes == <<"mes">>

\* Header rows of pesquisa.csv: three columns, the satisfaction column last.
CabecalhosPesquisa ==
    { << OpcoesColunaData[1], <<"Area">>, ColunaSatisfacao >>,
      << <<" ">> \o OpcoesColunaData[2] \o <<" ">>, <<"Area">>, ColunaSatisfacao >>,
      << OpcoesColunaData[2], OpcoesColunaData[1], ColunaSatisfacao >>,
      << <<"Area">>, <<BOM>> \o OpcoesColunaData[1], ColunaSatisfacao >>,
      << <<"Area">>, <<"Tipo de Manifestacao">>, ColunaSatisfacao >> }

\* Data rows of pesquisa.csv: the cells of the three columns.
LinhasPesquisa ==
    { << <<"2", "0", "/", "0", "1", "/", "2", "0", "2", "4">>,
         <<"1", "5", "/", "1", "2", "/", "2", "0", "2", "3">>,
         <<"?", "?", " ", "Sim">> >>,
      << <<"0", "5", "/", "0", "4", "/", "2", "0", "2", "4">>,
         <<"sem data">>,
         <<"Nao", " ">> >>,
      << <<>>,
         <<"3", "1", "/", "0", "2", "/", "2", "0", "2", "4">>,
         <<"?", "?", "?", " ", "?", " ", "x">> >> }

\* Header rows of ListaManifestacaoAtualizadaa.csv: two columns.
CabecalhosManifestacoes ==
    { << ColunaDataAbertura, <<"Assunto">> >>,
      << <<BOM, " ">> \o ColunaDataAbertura \o <<" ">>, <<"Assunto">> >>,
      << <<"Assunto">>, <<BOM, " ">> \o ColunaDataAbertura >>,
      << <<"Assunto">>, <<"Situacao">> >> }

\* Data rows of the case records: the text of the opening date; the same text
\* stands in both cells, so that whichever column is the date column carries it.
DatasManifestacoes ==
    { <<"1", "5", "/", "1", "2", "/", "2", "0", "2", "3">>,
      <<"0", "5", "/", "0", "4", "/", "2", "0", "2", "4">>,
      <<"sem data">> }

SeqAte(S, n) == UNION {[1..k -> S] : k \in 0..n}

\* A file that does not exist, one that read_csv (or any later step inside the
\* try) raises on, or a readable one.
ArquivoAusente == [status |-> "missing", columns |-> <<>>, rows |-> <<>>]

ArquivoIlegivel == [status |-> "error", columns |-> <<>>, rows |-> <<>>]

ArquivosPesquisa ==
    {ArquivoAusente, ArquivoIlegivel} \cup
    { [status |-> "ok", columns |-> h, rows |-> r] :
        h \in CabecalhosPesquisa, r \in SeqAte(LinhasPesquisa, MaxRows) }

ArquivosManifestacoes ==
    {ArquivoAusente, ArquivoIlegivel} \cup
    { [status |-> "ok", columns |-> h, rows |-> [i \in DOMAIN r |-> <<r[i], r[i]>>]] :
        h \in CabecalhosManifestacoes, r \in SeqAte(DatasManifestacoes, MaxRows) }

-----------------------------------------------------------------------------
(* The loaders.                                                            *)

Msg(nivel, texto) == [nivel |-> nivel, texto |-> texto]

\* A loader's "return None".
None == [ok |-> FALSE, columns |-> <<>>, rows |-> <<>>]

\* coluna_data_encontrada = None (line 37).
SemColuna == <<>>

IndiceColuna(cols, nome) == CHOOSE i \in DOMAIN cols : cols[i] = nome

\* Lines 29 and 66: pd.read_csv(..., sep=";").  The parser drops a byte-order
\* mark that opens the file, which is the start of the first header only.
LeCsv(arq) ==
    [columns |-> [i \in DOMAIN arq.columns |->
                    IF i = 1 /\ Len(arq.columns[i]) > 0 /\ Head(arq.columns[i]) = BOM
                    THEN Tail(arq.columns[i]) ELSE arq.columns[i]],
     rows |-> arq.rows]

\* Mutation of ColunaDataEncontrada: the loop without its break, so that the
\* last alias present wins.
RECURSIVE ColunaDataEncontradaSemBreak(_, _)
ColunaDataEncontradaSemBreak(opcoes, cols) ==
    IF opcoes = <<>> THEN <<>>
    ELSE IF opcoes[Len(opcoes)] \in {cols[i] : i \in DOMAIN cols}
         THEN opcoes[Len(opcoes)]
         ELSE ColunaDataEncontradaSemBreak(SubSeq(opcoes, 1, Len(opcoes) - 1), cols)

\* Lines 37-41: the first alias, in the order of the list, that is a column.
RECURSIVE ColunaDataEncontrada(_, _)
ColunaDataEncontrada(opcoes, cols) ==
    IF opcoes = <<>> THEN SemColuna
    ELSE IF Head(opcoes) \in Range(cols) THEN Head(opcoes)
         ELSE ColunaDataEncontrada(Tail(opcoes), cols)

\* Lines 33-34: the satisfaction column, when present, is cleaned cell by cell.
LimpaSatisfacao(cols, rows) ==
    IF ColunaSatisfacao \in Range(cols)
    THEN LET k == IndiceColuna(cols, ColunaSatisfacao)
         IN  [i \in DOMAIN rows |-> [rows[i] EXCEPT ![k] = CleanCell(rows[i][k])]]
    ELSE rows

\* Lines 45-46 and 83-84: the date column is coerced to dates and each row gets
\* its period.  A row of the frame keeps its index label (RangeIndex).
ColunaMesDeData(cols, rows, coluna) ==
    LET k == IndiceColuna(cols, coluna)
    IN  [i \in DOMAIN rows |->
            [idx |-> i - 1,
             cells |-> [rows[i] EXCEPT ![k] = ToDatetime(rows[i][k])],
             mes |-> ToPeriod(ToDatetime(rows[i][k]))]]

\* Mutation of ColunaMesAusente: a frame without the date column loses its rows.
ColunaMesAusenteDescarta(rows) == <<>>

\* Lines 50 and 87: df["mes"] = None.
ColunaMesAusente(rows) ==
    [i \in DOMAIN rows |-> [idx |-> i - 1, cells |-> rows[i], mes |-> NaT]]

\* Lines 23-58.
CarregarDadosPesquisa(arq) ==
    IF arq.status = "missing"
    THEN [ret |-> None, coluna |-> SemColuna,
          msgs |-> <<Msg("error", "Arquivo 'pesquisa.csv' nao encontrado.")>>]
    ELSE IF arq.status = "error"
    THEN [ret |-> None, coluna |-> SemColuna,
          msgs |-> <<Msg("error", "Erro ao carregar 'pesquisa.csv'")>>]
    ELSE LET lido == LeCsv(arq)
             cols == [i \in DOMAIN lido.columns |->
                        NormalizaHeaderPesquisa(lido.columns[i])]
             limpas == LimpaSatisfacao(cols, lido.rows)
             coluna == ColunaDataEncontrada(OpcoesColunaData, cols)
         IN  IF coluna # SemColuna
             THEN [ret |-> [ok |-> TRUE, columns |-> Append(cols, ColunaMes),
                            rows |-> ColunaMesDeData(cols, limpas, coluna)],
                   coluna |-> coluna, msgs |-> <<>>]
             ELSE [ret |-> [ok |-> TRUE, columns |-> Append(cols, ColunaMes),
                            rows |-> ColunaMesAusente(limpas)],
                   coluna |-> coluna,
                   msgs |-> <<Msg("warning",
                       "Nenhuma coluna de data encontrada no arquivo 'pesquisa.csv'.")>>]

\* Lines 61-95.  The renaming of lines 77-80 touches only a column that holds
\* "Area Responsavel", which none of the two columns of the model does.
CarregarDadosManifestacoes(arq) ==
    IF arq.status = "missing"
    THEN [ret |-> None,
          msgs |-> <<Msg("error", "Arquivo 'ListaManifestacoes.csv' nao encontrado.")>>]
    ELSE IF arq.status = "error"
    THEN [ret |-> None,
          msgs |-> <<Msg("error", "Erro ao carregar 'ListaManifestacoes.csv'")>>]
    ELSE LET lido == LeCsv(arq)
             cols == [i \in DOMAIN lido.columns |->
                        NormalizaHeaderManifestacoes(lido.columns[i])]
         IN  IF ColunaDataAbertura \in Range(cols)
             THEN [ret |-> [ok |-> TRUE, columns |-> Append(cols, ColunaMes),
                            rows |-> ColunaMesDeData(cols, lido.rows, ColunaDataAbertura)],
                   msgs |-> <<>>]
             ELSE [ret |-> [ok |-> TRUE, columns |-> Append(cols, ColunaMes),
                            rows |-> ColunaMesAusente(lido.rows)],
                   msgs |-> <<Msg("warning", "Coluna 'Data de Abertura' nao encontrada.")>>]

-----------------------------------------------------------------------------
(* The time filter of the sidebar (lines 104-153).                         *)

\* strftime('%B') under the locale of line 16, and under the C locale that
\* stays in force when pt_BR.UTF-8 is not installed (lines 17-18); capitalize()
\* has made the first letter upper case.
NomesMesesPt ==
    <<"Janeiro", "Fevereiro", "Marco", "Abril", "Maio", "Junho", "Julho",
      "Agosto", "Setembro", "Outubro", "Novembro", "Dezembro">>

NomesMesesC ==
    <<"January", "February", "March", "April", "May", "June", "July",
      "August", "September", "October", "November", "December">>

\* Line 117: periodo.strftime('%B/%Y').capitalize(), the text "<Month>/<year>"
\* as the pair of its two parts.
Rotulo(periodo, pt) ==
    <<(IF pt THEN NomesMesesPt ELSE NomesMesesC)[periodo[2]], periodo[1]>>

\* Line 109: the "mes" column exists and is not null in every row.  all() of
\* an empty column is True, so a frame without rows has no filter either.
FiltroDisponivel(df) ==
    /\ ColunaMes \in Range(df.columns)
    /\ \E i \in DOMAIN df.rows : df.rows[i].mes # NaT

RECURSIVE OrdenaDecrescente(_)
OrdenaDecrescente(S) ==
    IF S = {} THEN <<>>
    ELSE LET maior == CHOOSE p \in S : \A q \in S \ {p} : PeriodLess(q, p)
         IN  <<maior>> \o OrdenaDecrescente(S \ {maior})

\* Alphabetical order of the month names of both locales.
OrdemAlfabetica ==
    <<"Abril", "Agosto", "April", "August", "December", "Dezembro", "February",
      "Fevereiro", "Janeiro", "January", "Julho", "July", "June", "Junho", "Maio",
      "March", "Marco", "May", "Novembro", "November", "October", "Outubro",
      "September", "Setembro">>

PosicaoAlfabetica(nome) == CHOOSE i \in DOMAIN OrdemAlfabetica : OrdemAlfabetica[i] = nome

\* Order of two display labels as texts: by the month name, then by the year.
RotuloMenor(a, b) ==
    \/ PosicaoAlfabetica(a[1]) < PosicaoAlfabetica(b[1])
    \/ (a[1] = b[1] /\ a[2] < b[2])

RECURSIVE OrdenaPorRotuloDecrescente(_)
OrdenaPorRotuloDecrescente(S) ==
    IF S = {} THEN <<>>
    ELSE LET maior == CHOOSE p \in S : \A q \in S \ {p} :
                          RotuloMenor(Rotulo(q, locale_pt), Rotulo(p, locale_pt))
         IN  <<maior>> \o OrdenaPorRotuloDecrescente(S \ {maior})

\* Mutation of MesesPeriodoUnicos: the periods sorted by their display labels.
MesesPeriodoUnicosPorRotulo(df) ==
    OrdenaPorRotuloDecrescente({df.rows[i].mes : i \in DOMAIN df.rows} \ {NaT})

\* Line 112: sorted(df["mes"].dropna().unique(), reverse=True).
MesesPeriodoUnicos(df) ==
    OrdenaDecrescente({df.rows[i].mes : i \in DOMAIN df.rows} \ {NaT})

\* Lines 116-119: the dict comprehension.  A dict keeps the order in which its
\* keys were first inserted; a key inserted again keeps its place and takes the
\* new value.  The dict is the sequence of its <<key, value>> items.
RECURSIVE MapaMesDisplayParaPeriodo(_, _)
MapaMesDisplayParaPeriodo(periodos, pt) ==
    IF periodos = <<>> THEN <<>>
    ELSE LET n == Len(periodos)
             antes == MapaMesDisplayParaPeriodo(SubSeq(periodos, 1, n - 1), pt)
             chave == Rotulo(periodos[n], pt)
         IN  IF \E i \in DOMAIN antes : antes[i][1] = chave
             THEN [i \in DOMAIN antes |->
                     IF antes[i][1] = chave THEN <<chave, periodos[n]>> ELSE antes[i]]
             ELSE Append(antes, <<chave, periodos[n]>>)

\* Line 122: list(mapa.keys()).
OpcoesMesesDisplay(mapa) == [i \in DOMAIN mapa |-> mapa[i][1]]

\* mapa[display] (line 133).
ValorDoMapa(mapa, display) ==
    mapa[CHOOSE i \in DOMAIN mapa : mapa[i][1] = display][2]

\* Lines 125-129: st.sidebar.multiselect.  Until the user has touched the
\* widget it returns its default, every option; afterwards what the user chose.
Multiselect(widget, opcoes) ==
    IF widget.definido THEN widget.valor ELSE Range(opcoes)

\* Lines 132-134: the selected labels back to periods.
MesesSelecionadosPeriodo(mapa, selecionados_display) ==
    {ValorDoMapa(mapa, d) : d \in selecionados_display}

\* Mutation of FiltraManifestacoes: the undated rows are never kept.
FiltraManifestacoesSemNulos(df, selecionados, usar) ==
    LET Fica(r) == r.mes \in selecionados
    IN  SelectSeq(df.rows, Fica)

\* Mutation of FiltraManifestacoes: the filter narrows the frame the run before
\* left, instead of the full frame.
FiltraManifestacoesSobreAnterior(df, selecionados, usar) ==
    LET Fica(r) == r.mes \in selecionados \/ (usar /\ r.mes = NaT)
    IN  SelectSeq(IF pc = "idle" THEN df_manifestacoes_filtrado ELSE df.rows, Fica)

\* Lines 137-140: isin(selected) | (usar_data_invalida & isna()).
FiltraManifestacoes(df, selecionados, usar) ==
    LET Fica(r) == r.mes \in selecionados \/ (usar /\ r.mes = NaT)
    IN  SelectSeq(df.rows, Fica)

\* Lines 143-149: the survey is filtered by the selected periods alone, and
\* only when some survey row has a period; otherwise it is not filtered.
FiltraPesquisa(df, selecionados) ==
    IF FiltroDisponivel(df)
    THEN LET Fica(r) == r.mes \in selecionados
         IN  SelectSeq(df.rows, Fica)
    ELSE df.rows

\* Lines 105-153 as a whole: what the sidebar shows and the two filtered frames.
FiltroDeTempo(dfp, dfm, usar, widget, pt) ==
    IF FiltroDisponivel(dfm)
    THEN LET mapa == MapaMesDisplayParaPeriodo(MesesPeriodoUnicos(dfm), pt)
             opcoes == OpcoesMesesDisplay(mapa)
             display == Multiselect(widget, opcoes)
             periodos == MesesSelecionadosPeriodo(mapa, display)
         IN  [disponivel |-> TRUE, mapa |-> mapa, opcoes |-> opcoes,
              display |-> display, periodos |-> periodos,
              manifestacoes |-> FiltraManifestacoes(dfm, periodos, usar),
              pesquisa |-> FiltraPesquisa(dfp, periodos),
              msgs |-> <<>>]
    ELSE [disponivel |-> FALSE, mapa |-> <<>>, opcoes |-> <<>>,
          display |-> {}, periodos |-> {},
          manifestacoes |-> dfm.rows, pesquisa |-> dfp.rows,
          msgs |-> <<Msg("info", "Filtro de tempo nao disponivel.")>>]

-----------------------------------------------------------------------------
(* The two tabs (lines 155-257).  A tab either draws its charts from the   *)
(* filtered frame or shows its one message for an empty filtered frame.    *)

NaoRenderizada == [renderizada |-> FALSE, total |-> 0, graficos |-> FALSE, info |-> ""]

\* Lines 161-202.
Aba1(pesquisa_filtrado) ==
    IF pesquisa_filtrado # <<>>
    THEN [renderizada |-> TRUE, total |-> Len(pesquisa_filtrado),
          graficos |-> TRUE, info |-> ""]
    ELSE [renderizada |-> TRUE, total |-> 0, graficos |-> FALSE,
          info |-> "Nenhum dado de pesquisa encontrado para o periodo selecionado."]

\* Lines 205-257: the metric counts the unfiltered frame (line 207).
Aba2(dfm, manifestacoes_filtrado) ==
    IF manifestacoes_filtrado # <<>>
    THEN [renderizada |-> TRUE, total |-> Len(dfm.rows), graficos |-> TRUE, info |-> ""]
    ELSE [renderizada |-> TRUE, total |-> Len(dfm.rows), graficos |-> FALSE,
          info |-> "Nenhuma manifestacao encontrada para o periodo selecionado."]

\* Mutation of DeveParar: the script stops only when both loaders failed.
DevePararSeAmbos(dfp, dfm) == ~dfp.ok /\ ~dfm.ok

\* Lines 101-102: st.stop() when either loader returned None.
DeveParar(dfp, dfm) == ~dfp.ok \/ ~dfm.ok

-----------------------------------------------------------------------------
(* The session.                                                            *)

EntradaVazia == [hit |-> FALSE, ret |-> None, msgs |-> <<>>]

WidgetIntocado == [definido |-> FALSE, valor |-> {}]

\* Lines 22 and 60: @st.cache_data.  A function without arguments has one
\* entry; a hit returns the stored value and replays the messages the body
\* emitted, without running the body.
CacheData(entrada, corpo) ==
    IF entrada.hit THEN entrada
    ELSE [hit |-> TRUE, ret |-> corpo.ret, msgs |-> corpo.msgs]

\* Lines 15-18.
AvisoLocale ==
    IF locale_pt THEN <<>>
    ELSE <<Msg("warning", "Locale 'pt_BR.UTF-8' nao encontrado.")>>

Init ==
    /\ arquivo_pesquisa \in ArquivosPesquisa
    /\ arquivo_manifestacoes \in ArquivosManifestacoes
    /\ locale_pt \in BOOLEAN
    /\ cache = [pesquisa |-> EntradaVazia, manifestacoes |-> EntradaVazia]
    /\ usar_data_invalida = FALSE
    /\ multiselect = WidgetIntocado
    /\ pc = "inicio"
    /\ df_pesquisa = None
    /\ df_manifestacoes = None
    /\ coluna_data_encontrada = SemColuna
    /\ mensagens = <<>>
    /\ filtro_disponivel = FALSE
    /\ mapa_mes_display_para_periodo = <<>>
    /\ opcoes_meses_display = <<>>
    /\ meses_selecionados_periodo = {}
    /\ df_pesquisa_filtrado = <<>>
    /\ df_manifestacoes_filtrado = <<>>
    /\ aba1 = NaoRenderizada
    /\ aba2 = NaoRenderizada
    /\ restaurou = FALSE

\* One run of the script, lines 1-257, with the widgets holding `usar` and
\* `widget`.  Each \E ranges over one value: it names the value of a statement
\* of the script, computed once.
ExecutaScript(usar, widget) ==
    \E ep \in {CacheData(cache.pesquisa, CarregarDadosPesquisa(arquivo_pesquisa))},
        em \in {CacheData(cache.manifestacoes,
                        CarregarDadosManifestacoes(arquivo_manifestacoes))} :
    \E f \in {FiltroDeTempo(ep.ret, em.ret, usar, widget, locale_pt)} :
    LET dfp == ep.ret
        dfm == em.ret
    IN  /\ cache' = [pesquisa |-> ep, manifestacoes |-> em]
        /\ coluna_data_encontrada' =
              IF cache.pesquisa.hit THEN coluna_data_encontrada
              ELSE CarregarDadosPesquisa(arquivo_pesquisa).coluna
        /\ df_pesquisa' = dfp
        /\ df_manifestacoes' = dfm
        /\ usar_data_invalida' = usar
        /\ IF DeveParar(dfp, dfm)
           THEN /\ pc' = "stopped"
                /\ mensagens' = AvisoLocale \o ep.msgs \o em.msgs
                /\ multiselect' = widget
                /\ filtro_disponivel' = FALSE
                /\ mapa_mes_display_para_periodo' = <<>>
                /\ opcoes_meses_display' = <<>>
                /\ meses_selecionados_periodo' = {}
                /\ df_pesquisa_filtrado' = <<>>
                /\ df_manifestacoes_filtrado' = <<>>
                /\ aba1' = NaoRenderizada
                /\ aba2' = NaoRenderizada
                /\ restaurou' = FALSE
           ELSE /\ pc' = "idle"
                /\ mensagens' = AvisoLocale \o ep.msgs \o em.msgs \o f.msgs
                /\ multiselect' = IF f.disponivel
                                  THEN [definido |-> TRUE, valor |-> f.display]
                                  ELSE widget
                /\ filtro_disponivel' = f.disponivel
                /\ mapa_mes_display_para_periodo' = f.mapa
                /\ opcoes_meses_display' = f.opcoes
                /\ meses_selecionados_periodo' = f.periodos
                /\ df_pesquisa_filtrado' = f.pesquisa
                /\ df_manifestacoes_filtrado' = f.manifestacoes
                /\ aba1' = Aba1(f.pesquisa)
                /\ aba2' = Aba2(dfm, f.manifestacoes)
                /\ restaurou' =
                      /\ pc = "idle"
                      /\ \E r \in Range(f.manifestacoes) :
                            r \notin Range(df_manifestacoes_filtrado)
        /\ UNCHANGED ambiente

\* The first visit: the widgets hold their defaults.
PrimeiraExecucao ==
    /\ pc = "inicio"
    /\ ExecutaScript(FALSE, WidgetIntocado)

\* The user ticks or unticks "Incluir manifestacoes sem data?"; the script runs again.
MarcarCheckbox ==
    /\ pc = "idle"
    /\ ExecutaScript(~usar_data_invalida, multiselect)

\* The user changes the months of the multiselect; the script runs again.
SelecionarMeses ==
    /\ pc = "idle"
    /\ filtro_disponivel
    /\ \E S \in SUBSET Range(opcoes_meses_display) :
          /\ S # multiselect.valor
          /\ ExecutaScript(usar_data_invalida, [definido |-> TRUE, valor |-> S])

\* The user reloads the page: a new session, whose widgets hold their defaults,
\* over the same process-wide cache.
Recarregar ==
    /\ pc \in {"idle", "stopped"}
    /\ ExecutaScript(FALSE, WidgetIntocado)

Next ==
    \/ PrimeiraExecucao
    \/ MarcarCheckbox
    \/ SelecionarMeses
    \/ Recarregar

Spec == Init /\ [][Next]_vars

-----------------------------------------------------------------------------
(* Properties.                                                             *)

LinhasP == Range(df_pesquisa.rows)

LinhasM == Range(df_manifestacoes.rows)

TemDatada(linhas) == \E r \in linhas : r.mes # NaT

\* The rule of the specification's apply: the period is selected, or undated
\* rows are included and the row has no period.
Admitida(r) ==
    \/ r.mes \in meses_selecionados_periodo
    \/ (usar_data_invalida /\ r.mes = NaT)

\* C1, as stated: in each of the two datasets a row is in the filtered set if
\* and only if its period is one of the selected periods, or includeUndated is
\* true and the row has no period.  The selections are those of the multiselect,
\* so the statement is read over the runs that show it.
C1_Original ==
    (pc = "idle" /\ filtro_disponivel) =>
        /\ \A r \in LinhasM : r \in Range(df_manifestacoes_filtrado) <=> Admitida(r)
        /\ \A r \in LinhasP : r \in Range(df_pesquisa_filtrado) <=> Admitida(r)

\* C1, amended: when some case record has a period, a case record is in the
\* filtered set iff its period is selected or includeUndated is true and it has
\* no period; a survey row is in the filtered set iff its period is selected
\* (includeUndated does not reach the survey), unless no survey row has a
\* period, and then the survey is not filtered.  When no case record has a
\* period neither dataset is filtered.
C1_Filtro ==
    pc = "idle" =>
        IF TemDatada(LinhasM)
        THEN /\ \A r \in LinhasM :
                    r \in Range(df_manifestacoes_filtrado) <=> Admitida(r)
             /\ Len(df_manifestacoes_filtrado) = Cardinality({r \in LinhasM : Admitida(r)})
             /\ IF TemDatada(LinhasP)
                THEN /\ \A r \in LinhasP :
                           r \in Range(df_pesquisa_filtrado)
                               <=> r.mes \in meses_selecionados_periodo
                     /\ Len(df_pesquisa_filtrado) =
                           Cardinality({r \in LinhasP : r.mes \in meses_selecionados_periodo})
                ELSE df_pesquisa_filtrado = df_pesquisa.rows
        ELSE /\ df_manifestacoes_filtrado = df_manifestacoes.rows
             /\ df_pesquisa_filtrado = df_pesquisa.rows

\* Undated rows are included: an undated case record is kept, a dated one whose
\* month is not selected is left out, and an undated survey row is left out.
C1_Witness ==
    /\ pc = "idle"
    /\ usar_data_invalida
    /\ \E r \in Range(df_manifestacoes_filtrado) : r.mes = NaT
    /\ \E r \in LinhasM : r.mes # NaT /\ r \notin Range(df_manifestacoes_filtrado)
    /\ \E r \in LinhasP : r.mes = NaT /\ r \notin Range(df_pesquisa_filtrado)

\* The periods behind the labels the multiselect offers, in the order offered.
PeriodosOferecidos ==
    [i \in DOMAIN opcoes_meses_display |->
        ValorDoMapa(mapa_mes_display_para_periodo, opcoes_meses_display[i])]

\* C2: the periods the multiselect offers are exactly the periods carried by
\* some row of either dataset, each offered once.  Read over the runs that show
\* the multiselect.
C2_Claim ==
    (pc = "idle" /\ filtro_disponivel) =>
        /\ Range(PeriodosOferecidos) = {r.mes : r \in LinhasP \cup LinhasM} \ {NaT}
        /\ Cardinality(Range(opcoes_meses_display)) = Len(opcoes_meses_display)

Falhou(arq) == arq.status # "ok"

TemErro == \E i \in DOMAIN mensagens : mensagens[i].nivel = "error"

TemAviso(texto) ==
    \E i \in DOMAIN mensagens : mensagens[i] = Msg("warning", texto)

SemAliasPesquisa ==
    /\ arquivo_pesquisa.status = "ok"
    /\ \A k \in DOMAIN OpcoesColunaData : OpcoesColunaData[k] \notin Range(df_pesquisa.columns)

SemAliasManifestacoes ==
    /\ arquivo_manifestacoes.status = "ok"
    /\ ColunaDataAbertura \notin Range(df_manifestacoes.columns)

\* C4: a readable file none of whose columns is a date alias loads without
\* failing: the frame has every row of the file, each without a period, a
\* warning is emitted, and the periods computed from that frame alone are none.
C4_SemColunaData ==
    pc # "inicio" =>
        /\ SemAliasPesquisa =>
              /\ df_pesquisa.ok
              /\ Len(df_pesquisa.rows) = Len(arquivo_pesquisa.rows)
              /\ \A i \in DOMAIN df_pesquisa.rows :
                    /\ df_pesquisa.rows[i].mes = NaT
                    /\ \A k \in {1, 2} :
                          df_pesquisa.rows[i].cells[k] = arquivo_pesquisa.rows[i][k]
              /\ TemAviso("Nenhuma coluna de data encontrada no arquivo 'pesquisa.csv'.")
              /\ MesesPeriodoUnicos(df_pesquisa) = <<>>
        /\ SemAliasManifestacoes =>
              /\ df_manifestacoes.ok
              /\ Len(df_manifestacoes.rows) = Len(arquivo_manifestacoes.rows)
              /\ \A i \in DOMAIN df_manifestacoes.rows :
                    /\ df_manifestacoes.rows[i].mes = NaT
                    /\ df_manifestacoes.rows[i].cells = arquivo_manifestacoes.rows[i]
              /\ TemAviso("Coluna 'Data de Abertura' nao encontrada.")
              /\ MesesPeriodoUnicos(df_manifestacoes) = <<>>
              /\ opcoes_meses_display = <<>>

\* Both files were loaded, with rows, and neither has a date column.
C4_Witness ==
    /\ pc = "idle"
    /\ SemAliasPesquisa
    /\ SemAliasManifestacoes
    /\ Len(df_pesquisa.rows) > 0
    /\ Len(df_manifestacoes.rows) > 0
    /\ ~filtro_disponivel

\* What the page tells the user.
Relato == [mensagens |-> mensagens, aba1 |-> aba1, aba2 |-> aba2]

\* What the page would tell with the same widgets had pesquisa.csv held its
\* header row and no data row.
RelatoPesquisaSemLinhas ==
    LET c == CarregarDadosPesquisa([arquivo_pesquisa EXCEPT !.rows = <<>>])
        f == FiltroDeTempo(c.ret, df_manifestacoes, usar_data_invalida,
                           multiselect, locale_pt)
    IN  [mensagens |-> AvisoLocale \o c.msgs \o cache.manifestacoes.msgs \o f.msgs,
         aba1 |-> Aba1(f.pesquisa),
         aba2 |-> Aba2(df_manifestacoes, f.manifestacoes)]

\* The same for a case-record file without data rows.
RelatoManifestacoesSemLinhas ==
    LET c == CarregarDadosManifestacoes([arquivo_manifestacoes EXCEPT !.rows = <<>>])
        f == FiltroDeTempo(df_pesquisa, c.ret, usar_data_invalida,
                           multiselect, locale_pt)
    IN  [mensagens |-> AvisoLocale \o cache.pesquisa.msgs \o c.msgs \o f.msgs,
         aba1 |-> Aba1(f.pesquisa),
         aba2 |-> Aba2(c.ret, f.manifestacoes)]

\* C5: with no period selected and includeUndated false, a dataset that has
\* rows is filtered to nothing, and what the user is told differs from what is
\* told when the source had no rows.  Read in the way most favourable to the
\* code: over the runs that show the multiselect, and for the survey only when
\* some survey row has a period, which is when the filter is applied to it.
C5_Claim ==
    (pc = "idle" /\ filtro_disponivel /\ meses_selecionados_periodo = {}
        /\ ~usar_data_invalida) =>
        /\ TemDatada(LinhasP) =>
              (df_pesquisa_filtrado = <<>> /\ Relato # RelatoPesquisaSemLinhas)
        /\ LinhasM # {} =>
              (df_manifestacoes_filtrado = <<>> /\ Relato # RelatoManifestacoesSemLinhas)

\* C6: filtering leaves the loaded datasets as the loaders produced them from
\* the files, and whatever was selected before, every row of the full dataset
\* that the current selection admits is in the filtered result.
C6_NaoDestrutivo ==
    pc = "idle" =>
        /\ df_pesquisa = CarregarDadosPesquisa(arquivo_pesquisa).ret
        /\ df_manifestacoes = CarregarDadosManifestacoes(arquivo_manifestacoes).ret
        /\ filtro_disponivel =>
              /\ \A r \in Range(CarregarDadosManifestacoes(arquivo_manifestacoes).ret.rows) :
                    Admitida(r) => r \in Range(df_manifestacoes_filtrado)
              /\ \A r \in Range(CarregarDadosPesquisa(arquivo_pesquisa).ret.rows) :
                    r.mes \in meses_selecionados_periodo
                        => r \in Range(df_pesquisa_filtrado)

\* A case record the run before had left out is shown again.
C6_Witness ==
    /\ pc = "idle"
    /\ restaurou
    /\ filtro_disponivel
    /\ \E r \in Range(df_manifestacoes_filtrado) : r.mes \in meses_selecionados_periodo

\* C7: the periods are offered strictly descending by (year, month).
C7_OrdemDecrescente ==
    pc = "idle" =>
        \A i, j \in DOMAIN PeriodosOferecidos :
            i < j => PeriodLess(PeriodosOferecidos[j], PeriodosOferecidos[i])

\* Two periods across a year boundary are offered, the later first, where the
\* alphabetical order of their labels is the other way round.
C7_Witness ==
    /\ pc = "idle"
    /\ Len(opcoes_meses_display) >= 2
    /\ PeriodosOferecidos[1][1] > PeriodosOferecidos[2][1]
    /\ RotuloMenor(opcoes_meses_display[1], opcoes_meses_display[2])

\* C8: cleaning a satisfaction cell the loader has already cleaned changes
\* nothing: cleanCell(cleanCell(s)) = cleanCell(s).
C8_Claim ==
    (pc # "inicio" /\ df_pesquisa.ok) =>
        \A i \in DOMAIN df_pesquisa.rows :
            LET k == IndiceColuna(df_pesquisa.columns, ColunaSatisfacao)
                limpa == df_pesquisa.rows[i].cells[k]
            IN  CleanCell(limpa) = limpa

SemBordasNemBom(h) ==
    /\ BOM \notin Range(h)
    /\ Len(h) > 0 => (~IsSpace(h[1]) /\ ~IsSpace(h[Len(h)]))

\* C9: every column header of both loaded frames has no whitespace at its ends
\* and holds no byte-order mark.
C9_Claim ==
    pc # "inicio" =>
        /\ \A h \in Range(df_pesquisa.columns) : SemBordasNemBom(h)
        /\ \A h \in Range(df_manifestacoes.columns) : SemBordasNemBom(h)

\* C10: the survey's date column is the first alias of the list that is a
\* column: the first when both are, the second when it alone is, none otherwise.
C10_PrimeiroAlias ==
    (pc # "inicio" /\ df_pesquisa.ok) =>
        coluna_data_encontrada =
            IF OpcoesColunaData[1] \in Range(df_pesquisa.columns) THEN OpcoesColunaData[1]
            ELSE IF OpcoesColunaData[2] \in Range(df_pesquisa.columns)
                 THEN OpcoesColunaData[2]
                 ELSE SemColuna

\* Both aliases are columns, the second alias standing first in the file, and
\* the first alias of the list was taken, with the periods of its column.
C10_Witness ==
    /\ pc # "inicio"
    /\ df_pesquisa.ok
    /\ df_pesquisa.columns[1] = OpcoesColunaData[2]
    /\ df_pesquisa.columns[2] = OpcoesColunaData[1]
    /\ coluna_data_encontrada = OpcoesColunaData[1]
    /\ \E r \in LinhasP : r.mes # NaT

====
